---- MODULE Spec2Model ----
(***************************************************************************)
(* Model of the stock analytics platform: the daily ingestion process      *)
(* (app/data_ingestion/ingest.py), the prediction endpoint with its Redis  *)
(* read-through cache, the chart endpoint and the sentiment proxy          *)
(* (app/api/routes.py, utils.py, models.py).                               *)
(*                                                                         *)
(* Prices are fixed-point integers in thousandths of a currency unit       *)
(* ("1.004" is 1004); round(x, 2) rounds to a multiple of UnitsPerCent.    *)
(* MongoDB is taken to be reachable; Redis may be up or down.              *)
(***************************************************************************)
EXTENDS Integers, Sequences, FiniteSets, TLC

VARIABLES
    \* ---- ingest.py: one process, relaunched by its container ----
    API_KEY,      \* API_KEY as read from the environment at import
    ipc,         \* position of the ingestion process in main()
    idx,         \* index into SYMBOLS of the for loop of main()
    count,       \* RequestCounter.count
    db,          \* TRUE once get_db_connection() has returned
    store,       \* MongoDB realtimedb: collection name -> (_id -> record)
    runs,        \* number of launches of the ingestion process so far
    outcomes,    \* history: the responses fetched in this run, in order
    upserted,    \* history: symbols whose bulk_write completed in this run
    paces,       \* history: seconds spent in completed pacing sleeps in this run
    logged,      \* history: totals logged at line 161 in this run
    \* ---- the API process (routes.py, utils.py) and Redis ----
    cacheUp,       \* the Redis server is reachable
    redis_client,  \* utils.redis_client, the module-level handle
    mongo_client,  \* utils.mongo_client, the module-level handle
    cache,         \* Redis: key -> entry with its remaining time to live
    req,           \* the requests being served, one per slot
    last,          \* history: per request symbol, the latest 200 response
    lastSet        \* history: per request symbol, the latest computed and cached result

ingestVars == <<API_KEY, ipc, idx, count, db, runs, outcomes, upserted, paces, logged>>
apiVars == <<cacheUp, redis_client, mongo_client, cache, req>>
histVars == <<last, lastSet>>
queryVars == <<apiVars, histVars>>
vars == <<ingestVars, store, queryVars>>

(***************************************************************************)
(* Bounds of the model                                                     *)
(***************************************************************************)
MaxRuns == 2        \* launches of the ingestion process
MaxPartial == 1     \* a failing bulk_write has applied at most this many operations
TickSeconds == 30   \* the step by which time advances
MaxIntercept == 2   \* a line of closes starts at 1..MaxIntercept currency units
MaxSlope == 2       \* and rises by -MaxSlope..MaxSlope thousandths a day

(***************************************************************************)
(* Program constants                                                       *)
(***************************************************************************)
SYMBOLS == <<"AAPL", "GOOGL", "MSFT", "TSLA", "AMZN">>
PACING_SECONDS == 15
FETCH_INTERVAL_SECONDS == 86400
MIN_POINTS == 10
PREDICTION_LIMIT == 1000
PREDICTION_TTL == 60
CHART_LIMIT == 100
SENTIMENT_TTL == 3600
UnitsPerCent == 10
UnitsPerCurrency == 1000

SymbolSet == {SYMBOLS[i] : i \in 1..Len(SYMBOLS)}

Min(a, b) == IF a < b THEN a ELSE b

(***************************************************************************)
(* Conversions of the provider's strings                                   *)
(***************************************************************************)
\* The date strings the provider sends, in calendar order.
DateStrs == <<"2024-01-01", "2024-01-02", "2024-01-03", "2024-01-04",
              "2024-01-05", "2024-01-06", "2024-01-07", "2024-01-08",
              "2024-01-09", "2024-01-10", "2024-01-11">>

\* datetime.strptime(date_str, "%Y-%m-%d"): the day, as days since 2023-12-31.
StrptimeOk(date_str) == \E i \in 1..Len(DateStrs) : DateStrs[i] = date_str
Strptime(date_str) == CHOOSE i \in 1..Len(DateStrs) : DateStrs[i] = date_str

\* float(s): the strings that parse, with their value in thousandths.
FloatTable == ("1.000" :> 1000) @@ ("1.004" :> 1004) @@ ("1.024" :> 1024)
FloatOk(s) == s \in DOMAIN FloatTable
Float(s) == FloatTable[s]

\* int(s)
IntTable == ("100" :> 100) @@ ("200" :> 200)
IntOk(s) == s \in DOMAIN IntTable
Int_(s) == IntTable[s]

\* str.upper() on the symbol strings that occur.
UpperTable == ("AAPL" :> "AAPL") @@ ("GOOGL" :> "GOOGL") @@ ("MSFT" :> "MSFT") @@
              ("TSLA" :> "TSLA") @@ ("AMZN" :> "AMZN") @@ ("amzn" :> "AMZN") @@
              ("ZZZZ" :> "ZZZZ") @@ ("zzzz" :> "ZZZZ")
Upper(s) == UpperTable[s]

(***************************************************************************)
(* Provider responses                                                      *)
(***************************************************************************)
BarFields == {"1. open", "2. high", "3. low", "4. close", "5. volume"}

\* One entry of "Time Series (Daily)": the five fields as strings.
Values(close, volume) ==
    [f \in BarFields |-> IF f = "5. volume" THEN volume ELSE close]

\* An entry without its "4. close" field.
ValuesNoClose ==
    [f \in BarFields \ {"4. close"} |-> IF f = "5. volume" THEN "100" ELSE "1.000"]

\* An entry whose close is not a number.
ValuesBadClose ==
    [f \in BarFields |-> IF f = "5. volume" THEN "100"
                         ELSE IF f = "4. close" THEN "N/A" ELSE "1.000"]

Json(note, information, has_series, series) ==
    [kind |-> "json", note |-> note, information |-> information,
     has_series |-> has_series, series |-> series]

RespError == [kind |-> "error", note |-> FALSE, information |-> FALSE,
              has_series |-> FALSE, series |-> <<>>]
RespRate == Json(TRUE, FALSE, FALSE, <<>>)
RespPremium == Json(FALSE, TRUE, FALSE, <<>>)
RespRateWithSeries ==
    Json(TRUE, TRUE, TRUE, <<<<DateStrs[1], Values("1.000", "100")>>>>)
RespEmptyJson == Json(FALSE, FALSE, FALSE, <<>>)
RespNoBars == Json(FALSE, FALSE, TRUE, <<>>)
\* two bars, the two latest dates
RespShort == Json(FALSE, FALSE, TRUE,
    <<<<DateStrs[11], Values("1.024", "100")>>, <<DateStrs[10], Values("1.004", "100")>>>>)
\* the same two dates with other values
RespShort2 == Json(FALSE, FALSE, TRUE,
    <<<<DateStrs[11], Values("1.000", "200")>>, <<DateStrs[10], Values("1.004", "200")>>>>)
\* ten bars, newest first as the provider sends them, all closing at 1.000
RespTen == Json(FALSE, FALSE, TRUE,
    [i \in 1..10 |-> <<DateStrs[11 - i], Values("1.000", "100")>>])
RespMissingField == Json(FALSE, FALSE, TRUE,
    <<<<DateStrs[11], Values("1.024", "100")>>, <<DateStrs[10], ValuesNoClose>>>>)
RespBadNumber == Json(FALSE, FALSE, TRUE,
    <<<<DateStrs[11], ValuesBadClose>>>>)

\* What the provider may answer for a symbol.
ResponsesFor(symbol) ==
    IF symbol = SYMBOLS[Len(SYMBOLS)]
    THEN {RespError, RespRate, RespPremium, RespRateWithSeries, RespEmptyJson,
          RespNoBars, RespShort, RespShort2, RespTen, RespMissingField, RespBadNumber}
    ELSE {RespError, RespRate, RespPremium, RespEmptyJson, RespShort, RespMissingField}

\* The outcome of ExternalQuoteSource.fetch, in the specification's terms.
Classify(resp) ==
    IF resp.kind = "error" THEN "TransportError"
    ELSE IF resp.note THEN "RateLimited"
    ELSE IF resp.information THEN "PremiumRestricted"
    ELSE "Payload"

(***************************************************************************)
(* models.py and the arithmetic of routes.py                               *)
(***************************************************************************)
\* collection.find().sort('timestamp', -1).limit(limit): newest first.
RECURSIVE SortDescending(_, _)
SortDescending(coll, ids) ==
    IF ids = {} THEN <<>>
    ELSE LET newest == CHOOSE id \in ids :
                          \A other \in ids : coll[other].timestamp <= coll[id].timestamp
         IN  <<coll[newest]>> \o SortDescending(coll, ids \ {newest})

Find(coll, limit) ==
    LET sorted == SortDescending(coll, DOMAIN coll)
    IN  SubSeq(sorted, 1, Min(limit, Len(sorted)))

\* list.reverse()
Reverse(seq) == [i \in 1..Len(seq) |-> seq[Len(seq) + 1 - i]]

\* df.sort_values('timestamp'): a stable sort, ascending (insertion sort).
RECURSIVE InsertByTimestamp(_, _)
InsertByTimestamp(sorted, rec) ==
    IF sorted = <<>> THEN <<rec>>
    ELSE IF sorted[Len(sorted)].timestamp <= rec.timestamp THEN Append(sorted, rec)
    ELSE Append(InsertByTimestamp(SubSeq(sorted, 1, Len(sorted) - 1), rec),
                sorted[Len(sorted)])

RECURSIVE SortValues(_)
SortValues(data) ==
    IF data = <<>> THEN <<>>
    ELSE InsertByTimestamp(SortValues(SubSeq(data, 1, Len(data) - 1)), data[Len(data)])

RECURSIVE SumOver(_, _)
SumOver(f, n) == IF n = 0 THEN 0 ELSE f[n] + SumOver(f, n - 1)

\* A regression read off at the last index, n - 1, instead of at n.
LinearPredictionAtLast(closes) ==
    LET n == Len(closes)
        Sx == SumOver([i \in 1..n |-> i - 1], n)
        Sxx == SumOver([i \in 1..n |-> (i - 1) * (i - 1)], n)
        Sy == SumOver(closes, n)
        Sxy == SumOver([i \in 1..n |-> (i - 1) * closes[i]], n)
        N == n * Sxy - Sx * Sy
        D == n * Sxx - Sx * Sx
    IN  [num |-> 2 * D * Sy + N * (n - 1) * n, den |-> 2 * D * n]

\* LinearRegression().fit(time_index, close).predict(len(df)): ordinary least
\* squares over x = 0..n-1, extrapolated to x = n, as the exact fraction
\* num / den (den > 0) of thousandths.
LinearPrediction(closes) ==
    LET n == Len(closes)
        Sx == SumOver([i \in 1..n |-> i - 1], n)
        Sxx == SumOver([i \in 1..n |-> (i - 1) * (i - 1)], n)
        Sy == SumOver(closes, n)
        Sxy == SumOver([i \in 1..n |-> (i - 1) * closes[i]], n)
        N == n * Sxy - Sx * Sy
        D == n * Sxx - Sx * Sx
    IN  [num |-> 2 * D * Sy + N * (n + 1) * n, den |-> 2 * D * n]

\* train_and_predict(symbol, data): (prediction, latest_close); prediction is
\* None below MIN_POINTS data points.
train_and_predict(data) ==
    IF Len(data) < MIN_POINTS
    THEN [none |-> TRUE, num |-> 0, den |-> 1,
          latest_close |-> IF Len(data) > 0 THEN data[Len(data)].close ELSE 0]
    ELSE LET df == SortValues(data)
             p == LinearPrediction([i \in 1..Len(df) |-> df[i].close])
         IN  [none |-> FALSE, num |-> p.num, den |-> p.den,
              latest_close |-> df[Len(df)].close]

\* round(num / den, 2) for a non-negative fraction of thousandths: the nearest
\* multiple of UnitsPerCent, a tie going to the even cent.
Round2(num, den) ==
    LET d == den * UnitsPerCent
        q == num \div d
        r == num - q * d
    IN  IF 2 * r > d THEN (q + 1) * UnitsPerCent
        ELSE IF 2 * r < d THEN q * UnitsPerCent
        ELSE IF q % 2 = 0 THEN q * UnitsPerCent ELSE (q + 1) * UnitsPerCent

\* A comparison that lets equality buy.
RecommendationAtLeast(tp) ==
    IF tp.num >= tp.latest_close * tp.den THEN "Buy" ELSE "Sell"

\* Line 71: "Buy" if prediction > latest_close else "Sell".
Recommendation(tp) ==
    IF tp.num > tp.latest_close * tp.den THEN "Buy" ELSE "Sell"

\* The dict of lines 63-68.
HoldResult(symbol, tp) ==
    [symbol |-> Upper(symbol), latest_close |-> tp.latest_close,
     prediction_is_number |-> FALSE, prediction |-> 0, recommendation |-> "Hold"]

\* The dict of lines 73-78.
NumericResult(symbol, tp) ==
    [symbol |-> Upper(symbol), latest_close |-> Round2(tp.latest_close, 1),
     prediction_is_number |-> TRUE, prediction |-> Round2(tp.num, tp.den),
     recommendation |-> Recommendation(tp)]

NoResult == [symbol |-> "", latest_close |-> 0, prediction_is_number |-> FALSE,
             prediction |-> 0, recommendation |-> ""]

\* json.dumps(result) and json.loads(text)
Dumps(result) ==
    <<"symbol", result.symbol, "latest_close", result.latest_close,
      "prediction", result.prediction_is_number, result.prediction,
      "recommendation", result.recommendation>>
Loads(text) ==
    [symbol |-> text[2], latest_close |-> text[4], prediction_is_number |-> text[6],
     prediction |-> text[7], recommendation |-> text[9]]

(***************************************************************************)
(* utils.py and Redis                                                      *)
(***************************************************************************)
\* The symbols requests name.
ReqSymbols == {"AMZN", "amzn", "ZZZZ"}
Slots == {"r1", "r2"}

\* f'prediction:{symbol}'
PredictionKey(symbol) == <<"prediction", symbol>>
CacheKeys == {PredictionKey(s) : s \in ReqSymbols}

\* The slots of the chart_data and the sentiment requests.
ChartSlots == {"c1"}
SentimentSlots == {"s1"}
AllSlots == Slots \cup ChartSlots \cup SentimentSlots

\* f"sentiment:{symbol}"
SentimentKey(symbol) == <<"sentiment", symbol>>
SentimentKeys == {SentimentKey(s) : s \in ReqSymbols}
AllKeys == CacheKeys \cup SentimentKeys

\* What the news API answers when it answers: its feed changes over time.
SentimentFeeds == {<<"feed", "morning">>, <<"feed", "evening">>}

\* json.dumps(data) and json.loads(text) of a sentiment payload
SentimentDumps(data) == <<"json">> \o data
SentimentLoads(text) == SubSeq(text, 2, Len(text))

\* point['timestamp'].strftime('%H:%M:%S'): the stored timestamps are dates,
\* at midnight.
Strftime(timestamp) == "00:00:00"

NoEntry == [present |-> FALSE, value |-> <<>>, ttl |-> 0]

\* get_redis_client(): the new value of the module-level handle, and whether
\* the caller gets a client (TRUE) or None (FALSE).
get_redis_client(handle, up) ==
    IF handle = "None"
    THEN [handle |-> "client", client |-> up]
    ELSE [handle |-> handle, client |-> TRUE]

\* get_mongo_db(): the new value of the module-level handle; MongoDB answers.
get_mongo_db(handle) == IF handle = "None" THEN "client" ELSE handle

\* A set whose expiry is taken in milliseconds: the entry is gone at once.
CacheSetMillis(c, key, value, ttl) == [c EXCEPT ![key] = NoEntry]

\* A set that leaves an entry already there alone (first writer wins).
CacheSetIfAbsent(c, key, value, ttl) ==
    IF c[key].present THEN c
    ELSE [c EXCEPT ![key] = [present |-> TRUE, value |-> value, ttl |-> ttl]]

\* redis_client.set(key, value, ex=ttl)
CacheSet(c, key, value, ttl) ==
    [c EXCEPT ![key] = [present |-> TRUE, value |-> value, ttl |-> ttl]]

\* Redis expires what has no time left.
Expire(c, seconds) ==
    [k \in DOMAIN c |-> IF c[k].present /\ c[k].ttl > seconds
                        THEN [c[k] EXCEPT !.ttl = @ - seconds]
                        ELSE NoEntry]

(***************************************************************************)
(* History of responses, for the statements about successive calls         *)
(***************************************************************************)
NoLast == [valid |-> FALSE, body |-> NoResult, age |-> 0]

StoreMutated(h, coll) ==
    [s \in DOMAIN h |-> IF Upper(s) = coll THEN NoLast ELSE h[s]]

Aged(h, seconds) ==
    [s \in DOMAIN h |-> IF h[s].valid /\ h[s].age + seconds < PREDICTION_TTL
                        THEN [h[s] EXCEPT !.age = @ + seconds]
                        ELSE NoLast]

(***************************************************************************)
(* ingest.py                                                               *)
(***************************************************************************)
NoneData == [isNone |-> TRUE, truthy |-> FALSE, has_series |-> FALSE, series |-> <<>>]

\* A counter incremented only once the provider has answered.
CounterAfterResponse(c, resp) == IF resp.kind = "error" THEN c ELSE c + 1

\* fetch_alpha_vantage_data, line 50: counter.increment() comes first in the
\* try block, before the request is sent, whatever the call then returns.
CounterAfterFetch(c, resp) == c + 1

\* fetch_alpha_vantage_data: the value returned.
fetch_alpha_vantage_data(resp) ==
    IF resp.kind = "error" THEN NoneData
    ELSE IF resp.note THEN NoneData
    ELSE IF resp.information THEN NoneData
    ELSE [isNone |-> FALSE,
          truthy |-> resp.note \/ resp.information \/ resp.has_series,
          has_series |-> resp.has_series,
          series |-> resp.series]

\* The record built for one entry of the time series (lines 87-97).
RecordOk(date_str, values) ==
    /\ StrptimeOk(date_str)
    /\ BarFields \subseteq DOMAIN values
    /\ \A f \in BarFields \ {"5. volume"} : FloatOk(values[f])
    /\ IntOk(values["5. volume"])

\* A record keyed by the symbol alone.
RecordIdWithoutDate(symbol, date_str, values) ==
    [_id |-> <<symbol>>,
     symbol |-> symbol,
     timestamp |-> Strptime(date_str),
     open |-> Float(values["1. open"]),
     high |-> Float(values["2. high"]),
     low |-> Float(values["3. low"]),
     close |-> Float(values["4. close"]),
     volume |-> Int_(values["5. volume"])]

Record(symbol, date_str, values) ==
    [_id |-> <<symbol, date_str>>,
     symbol |-> symbol,
     timestamp |-> Strptime(date_str),
     open |-> Float(values["1. open"]),
     high |-> Float(values["2. high"]),
     low |-> Float(values["3. low"]),
     close |-> Float(values["4. close"]),
     volume |-> Int_(values["5. volume"])]

\* The for loop of process_and_save_daily_data completes without raising.
BuildOk(series) == \A i \in 1..Len(series) : RecordOk(series[i][1], series[i][2])

Operations(symbol, series) ==
    [i \in 1..Len(series) |-> Record(symbol, series[i][1], series[i][2])]

\* A write that replaces the collection by the one record.
UpdateOneReplacingAll(coll, record) == [id \in {record._id} |-> record]

\* pymongo.UpdateOne({'_id': id}, {'$set': record}, upsert=True) on a collection.
UpdateOne(coll, record) ==
    [id \in DOMAIN coll \cup {record._id} |->
        IF id = record._id THEN record ELSE coll[id]]

\* collection.bulk_write(operations), ordered: the first n operations applied.
RECURSIVE BulkWrite(_, _, _)
BulkWrite(coll, operations, n) ==
    IF n = 0 THEN coll
    ELSE UpdateOne(BulkWrite(coll, operations, n - 1), operations[n])

\* run_daily_ingestion: whether the branch of line 126 is taken.
ShouldProcess(data) == (~data.isNone) /\ data.truthy /\ data.has_series

\* A run_daily_ingestion that never signals the main loop to stop.
run_daily_ingestion_never_stops(data) == TRUE

\* run_daily_ingestion: the value returned when nothing raised.
run_daily_ingestion_return(data) ==
    IF ShouldProcess(data) THEN TRUE ELSE ~data.isNone

EmptyColl == [id \in {} |-> 0]

NoTp == [none |-> TRUE, num |-> 0, den |-> 1, latest_close |-> 0]

\* A slot serving no request.
IdleSlot == [pc |-> "idle", symbol |-> "", client |-> FALSE, recent_data |-> <<>>,
             overlap |-> FALSE, data |-> <<>>,
             tp |-> NoTp, result |-> NoResult, status |-> 0, error |-> "", ops |-> {},
             prior |-> FALSE, priorSet |-> FALSE, prev |-> NoLast, prevSet |-> NoLast]

Init ==
    /\ API_KEY \in {"unset", "YOUR_API_KEY", "valid"}
    /\ ipc = "main"
    /\ idx = 1
    /\ count = 0
    /\ db = FALSE
    /\ store = [c \in SymbolSet |-> EmptyColl]
    /\ runs = 1
    /\ outcomes = <<>>
    /\ upserted = {}
    /\ paces = 0
    /\ logged = <<>>
    /\ cacheUp \in BOOLEAN
    /\ redis_client = "None"
    /\ mongo_client = "None"
    /\ cache = [k \in AllKeys |-> NoEntry]
    /\ req = [r \in AllSlots |-> IdleSlot]
    /\ last = [s \in ReqSymbols |-> NoLast]
    /\ lastSet = [s \in ReqSymbols |-> NoLast]

\* A test that lets the placeholder through.
KeyUnset(key) == key = "unset"

\* Line 142: not API_KEY or API_KEY == "YOUR_API_KEY".
KeyMissing(key) == key = "unset" \/ key = "YOUR_API_KEY"

\* main(), lines 142-144: the API key guard.
MainGuard ==
    /\ ipc = "main"
    /\ ipc' = IF KeyMissing(API_KEY) THEN "exited" ELSE "connect"
    /\ UNCHANGED <<API_KEY, idx, count, db, runs, outcomes, upserted, paces, logged, store, queryVars>>

\* main(), lines 146-149: the database connection and a fresh counter.
get_db_connection ==
    /\ ipc = "connect"
    /\ db' = TRUE
    /\ count' = 0
    /\ idx' = 1
    /\ ipc' = "loop"
    /\ UNCHANGED <<API_KEY, runs, outcomes, upserted, paces, logged, store, queryVars>>

\* One iteration of the for loop up to the pacing sleep: run_daily_ingestion
\* for SYMBOLS[idx] (fetch, then process_and_save_daily_data), then the test
\* of line 153.  fail_at = -1: bulk_write succeeds; otherwise it raises after
\* applying fail_at operations.
run_daily_ingestion(resp, fail_at) ==
    LET symbol == SYMBOLS[idx]
        data == fetch_alpha_vantage_data(resp)
        ops == Operations(symbol, data.series)
        coll == Upper(symbol)
    IN  /\ ipc = "loop"
        /\ count' = CounterAfterFetch(count, resp)
        /\ outcomes' = Append(outcomes, resp)
        /\ IF ShouldProcess(data)
           THEN IF ~BuildOk(data.series)
                THEN \* KeyError / ValueError leaves main()
                     /\ fail_at = -1
                     /\ ipc' = "crashed"
                     /\ UNCHANGED <<store, upserted>>
                ELSE IF Len(ops) = 0
                THEN /\ fail_at = -1
                     /\ ipc' = IF run_daily_ingestion_return(data) THEN "pace" ELSE "log"
                     /\ UNCHANGED <<store, upserted>>
                ELSE IF fail_at = -1
                THEN /\ store' = [store EXCEPT ![coll] = BulkWrite(@, ops, Len(ops))]
                     /\ upserted' = upserted \cup {symbol}
                     /\ ipc' = IF run_daily_ingestion_return(data) THEN "pace" ELSE "log"
                ELSE \* the write error leaves main()
                     /\ fail_at < Len(ops)
                     /\ store' = [store EXCEPT ![coll] = BulkWrite(@, ops, fail_at)]
                     /\ ipc' = "crashed"
                     /\ UNCHANGED upserted
           ELSE /\ fail_at = -1
                /\ ipc' = IF run_daily_ingestion_return(data) THEN "pace" ELSE "log"
                /\ UNCHANGED <<store, upserted>>
        /\ last' = IF store' = store THEN last ELSE StoreMutated(last, coll)
        /\ lastSet' = IF store' = store THEN lastSet ELSE StoreMutated(lastSet, coll)
        /\ UNCHANGED <<API_KEY, idx, db, runs, paces, logged, apiVars>>

\* A sleep that returns at once.
SleepSkipped(slept, seconds) == slept

\* time.sleep(seconds): the time slept so far, once the call has returned.
Sleep(slept, seconds) == slept + seconds

\* time.sleep(15) of line 156, then the next iteration or the end of the loop.
PacingSleep ==
    /\ ipc = "pace"
    /\ paces' = Sleep(paces, PACING_SECONDS)
    /\ idx' = idx + 1
    /\ ipc' = IF idx = Len(SYMBOLS) THEN "log" ELSE "loop"
    /\ UNCHANGED <<API_KEY, count, db, runs, outcomes, upserted, logged, store, queryVars>>

\* Lines 157-162: the totals are logged.
LogTotals ==
    /\ ipc = "log"
    /\ logged' = Append(logged, count)
    /\ ipc' = "sleep24"
    /\ UNCHANGED <<API_KEY, idx, count, db, runs, outcomes, upserted, paces, store, queryVars>>

\* Line 163: time.sleep(FETCH_INTERVAL_SECONDS); main() then returns.
SleepUntilNextRun ==
    /\ ipc = "sleep24"
    /\ ipc' = "exited"
    /\ UNCHANGED <<API_KEY, idx, count, db, runs, outcomes, upserted, paces, logged, store, queryVars>>

\* The container starts the script again (lines 166-168): a new process.
Relaunch ==
    /\ ipc \in {"exited", "crashed"}
    /\ runs < MaxRuns
    /\ runs' = runs + 1
    /\ ipc' = "main"
    /\ idx' = 1
    /\ count' = 0
    /\ db' = FALSE
    /\ outcomes' = <<>>
    /\ upserted' = {}
    /\ paces' = 0
    /\ logged' = <<>>
    /\ UNCHANGED <<API_KEY, store, queryVars>>

(***************************************************************************)
(* routes.py: predict(symbol), one request per slot                        *)
(***************************************************************************)
\* The slot once the response is sent.  prev and prevSet keep what the
\* histories held for the symbol when the response was sent, if they were
\* already valid when the request came in.
Responded(slot, status, error, result, ops) ==
    [slot EXCEPT !.pc = "done", !.status = status, !.error = error,
                 !.result = result, !.ops = ops,
                 !.prev = IF slot.prior /\ last[slot.symbol].valid
                          THEN last[slot.symbol] ELSE NoLast,
                 !.prevSet = IF slot.priorSet /\ lastSet[slot.symbol].valid
                             THEN lastSet[slot.symbol] ELSE NoLast]

Fresh(result) == [valid |-> TRUE, body |-> result, age |-> 0]

\* A predict() that takes its handles before it checks the symbol.
PredictBeginHandlesFirst(r, symbol) ==
    LET g == get_redis_client(redis_client, cacheUp)
    IN  /\ req[r].pc \in {"idle", "done"}
        /\ redis_client' = g.handle
        /\ mongo_client' = get_mongo_db(mongo_client)
        /\ req' = [req EXCEPT ![r] =
              IF Upper(symbol) \notin SymbolSet
              THEN Responded([IdleSlot EXCEPT !.symbol = symbol],
                             404, "Symbol not tracked", NoResult,
                             {"get_redis_client", "get_mongo_db"})
              ELSE [IdleSlot EXCEPT !.pc = IF g.client THEN "cache_get" ELSE "find",
                                    !.symbol = symbol,
                                    !.client = g.client,
                                    !.ops = {"get_redis_client", "get_mongo_db"},
                                    !.prior = last[symbol].valid,
                                    !.priorSet = lastSet[symbol].valid]]
        /\ UNCHANGED <<ingestVars, store, cacheUp, cache, histVars>>

\* Lines 32-37: the tracked check, then the two handles.
PredictBegin(r, symbol) ==
    /\ req[r].pc \in {"idle", "done"}
    /\ IF Upper(symbol) \notin SymbolSet
       THEN /\ req' = [req EXCEPT ![r] =
                  Responded([IdleSlot EXCEPT !.symbol = symbol],
                            404, "Symbol not tracked", NoResult, {})]
            /\ UNCHANGED <<redis_client, mongo_client>>
       ELSE LET g == get_redis_client(redis_client, cacheUp)
            IN  /\ redis_client' = g.handle
                /\ mongo_client' = get_mongo_db(mongo_client)
                /\ req' = [req EXCEPT ![r] =
                      [IdleSlot EXCEPT !.pc = IF g.client THEN "cache_get" ELSE "find",
                                       !.symbol = symbol,
                                       !.client = g.client,
                                       !.ops = {"get_redis_client", "get_mongo_db"},
                                       !.prior = last[symbol].valid,
                                       !.priorSet = lastSet[symbol].valid]]
    /\ UNCHANGED <<ingestVars, store, cacheUp, cache, histVars>>

\* Lines 39-44: the cache lookup.  A Redis that cannot be reached raises,
\* and the handler of line 87 answers 500.
PredictCacheGet(r) ==
    LET slot == req[r]
        key == PredictionKey(slot.symbol)
        ops == slot.ops \cup {"cache_get"}
    IN  /\ slot.pc = "cache_get"
        /\ IF ~cacheUp
           THEN /\ req' = [req EXCEPT ![r] =
                      Responded(slot, 500, "An internal server error occurred",
                                NoResult, ops)]
                /\ UNCHANGED histVars
           ELSE IF cache[key].present
           THEN /\ req' = [req EXCEPT ![r] =
                      Responded(slot, 200, "", Loads(cache[key].value), ops)]
                /\ last' = [last EXCEPT ![slot.symbol] = Fresh(Loads(cache[key].value))]
                /\ UNCHANGED lastSet
           ELSE /\ req' = [req EXCEPT ![r] = [slot EXCEPT !.pc = "find", !.ops = ops]]
                /\ UNCHANGED histVars
        /\ UNCHANGED <<ingestVars, store, cacheUp, redis_client, mongo_client, cache>>

\* Lines 46-78: the store read, train_and_predict and the result.
PredictFind(r) ==
    LET recent_data == Reverse(Find(store[Upper(req[r].symbol)], PREDICTION_LIMIT))
        \* history: another request for the symbol is past its cache lookup
        \* and not yet answered
        overlap == \E other \in Slots \ {r} :
                      /\ req[other].symbol = req[r].symbol
                      /\ req[other].pc \in {"find", "cache_set"}
        slot == [req[r] EXCEPT !.recent_data = recent_data, !.overlap = overlap]
        tp == train_and_predict(recent_data)
        ops == slot.ops \cup {"find"}
    IN  /\ req[r].pc = "find"
        /\ IF Len(recent_data) = 0
           THEN /\ req' = [req EXCEPT ![r] =
                      Responded(slot, 404, "No data available for this symbol yet",
                                NoResult, ops)]
                /\ UNCHANGED histVars
           ELSE IF tp.none
           THEN /\ req' = [req EXCEPT ![r] =
                      Responded([slot EXCEPT !.tp = tp], 200, "",
                                HoldResult(slot.symbol, tp), ops)]
                /\ last' = IF slot.client
                           THEN [last EXCEPT ![slot.symbol] =
                                    Fresh(HoldResult(slot.symbol, tp))]
                           ELSE last
                /\ UNCHANGED lastSet
           ELSE IF slot.client
           THEN /\ req' = [req EXCEPT ![r] =
                      [slot EXCEPT !.pc = "cache_set", !.tp = tp, !.ops = ops,
                                   !.result = NumericResult(slot.symbol, tp)]]
                /\ UNCHANGED histVars
           ELSE /\ req' = [req EXCEPT ![r] =
                      Responded([slot EXCEPT !.tp = tp], 200, "",
                                NumericResult(slot.symbol, tp), ops)]
                /\ UNCHANGED histVars
        /\ UNCHANGED <<ingestVars, store, cacheUp, redis_client, mongo_client, cache>>

\* Lines 80-85: the result is cached for PREDICTION_TTL seconds and returned.
PredictCacheSet(r) ==
    LET slot == req[r]
        key == PredictionKey(slot.symbol)
        ops == slot.ops \cup {"cache_set"}
    IN  /\ slot.pc = "cache_set"
        /\ IF ~cacheUp
           THEN /\ req' = [req EXCEPT ![r] =
                      Responded(slot, 500, "An internal server error occurred",
                                NoResult, ops)]
                /\ UNCHANGED <<cache, histVars>>
           ELSE /\ cache' = CacheSet(cache, key, Dumps(slot.result), PREDICTION_TTL)
                /\ req' = [req EXCEPT ![r] = Responded(slot, 200, "", slot.result, ops)]
                /\ last' = [last EXCEPT ![slot.symbol] = Fresh(slot.result)]
                /\ lastSet' = [lastSet EXCEPT ![slot.symbol] = Fresh(slot.result)]
        /\ UNCHANGED <<ingestVars, store, cacheUp, redis_client, mongo_client>>

(***************************************************************************)
(* routes.py: chart_data(symbol) and sentiment(symbol)                     *)
(***************************************************************************)
\* Lines 96-100: the tracked check, then the MongoDB handle.
ChartBegin(r, symbol) ==
    /\ req[r].pc \in {"idle", "done"}
    /\ IF Upper(symbol) \notin SymbolSet
       THEN /\ req' = [req EXCEPT ![r] =
                  Responded([IdleSlot EXCEPT !.symbol = symbol],
                            404, "Symbol not tracked", NoResult, {})]
            /\ UNCHANGED mongo_client
       ELSE /\ mongo_client' = get_mongo_db(mongo_client)
            /\ req' = [req EXCEPT ![r] =
                  [IdleSlot EXCEPT !.pc = "chart_find", !.symbol = symbol,
                                   !.ops = {"get_mongo_db"}]]
    /\ UNCHANGED <<ingestVars, store, cacheUp, redis_client, cache, histVars>>

\* Lines 101-111: the latest CHART_LIMIT points in chronological order, as
\* (label, close) pairs.
ChartFind(r) ==
    LET slot == req[r]
        chart_points == Reverse(Find(store[Upper(slot.symbol)], CHART_LIMIT))
    IN  /\ req[r].pc = "chart_find"
        /\ req' = [req EXCEPT ![r] =
              Responded([slot EXCEPT !.data =
                            [i \in 1..Len(chart_points) |->
                                <<Strftime(chart_points[i].timestamp),
                                  chart_points[i].close>>]],
                        200, "", NoResult, slot.ops \cup {"find"})]
        /\ UNCHANGED <<ingestVars, store, cacheUp, redis_client, mongo_client, cache,
                       histVars>>

\* The 500 of lines 147-149.
SentimentError(slot, ops) ==
    Responded(slot, 500, "An internal server error occurred", NoResult, ops)

\* Line 123: the Redis handle.
SentimentBegin(r, symbol) ==
    LET g == get_redis_client(redis_client, cacheUp)
    IN  /\ req[r].pc \in {"idle", "done"}
        /\ redis_client' = g.handle
        /\ req' = [req EXCEPT ![r] =
              [IdleSlot EXCEPT !.pc = IF g.client THEN "exists" ELSE "fetch",
                               !.symbol = symbol,
                               !.client = g.client,
                               !.ops = {"get_redis_client"}]]
        /\ UNCHANGED <<ingestVars, store, cacheUp, mongo_client, cache, histVars>>

\* Line 127: redis_client.exists(cache_key).
SentimentExists(r) ==
    LET slot == req[r]
        ops == slot.ops \cup {"exists"}
    IN  /\ slot.pc = "exists"
        /\ req' = [req EXCEPT ![r] =
              IF ~cacheUp THEN SentimentError(slot, ops)
              ELSE [slot EXCEPT !.ops = ops,
                                !.pc = IF cache[SentimentKey(slot.symbol)].present
                                       THEN "get" ELSE "fetch"]]
        /\ UNCHANGED <<ingestVars, store, cacheUp, redis_client, mongo_client, cache,
                       histVars>>

\* Line 129: json.loads(redis_client.get(cache_key)); get returns None for a
\* key that is gone, and json.loads(None) raises TypeError.
SentimentGet(r) ==
    LET slot == req[r]
        entry == cache[SentimentKey(slot.symbol)]
        ops == slot.ops \cup {"cache_get"}
    IN  /\ slot.pc = "get"
        /\ req' = [req EXCEPT ![r] =
              IF ~cacheUp THEN SentimentError(slot, ops)
              ELSE IF ~entry.present THEN SentimentError(slot, ops \cup {"loads_none"})
              ELSE Responded([slot EXCEPT !.data = SentimentLoads(entry.value)],
                             200, "", NoResult, ops)]
        /\ UNCHANGED <<ingestVars, store, cacheUp, redis_client, mongo_client, cache,
                       histVars>>

\* Lines 133-139: the request to the news API.  ok = FALSE: the request
\* fails or raise_for_status raises.
SentimentFetch(r, ok, data) ==
    LET slot == req[r]
        ops == slot.ops \cup {"upstream"}
    IN  /\ slot.pc = "fetch"
        /\ req' = [req EXCEPT ![r] =
              IF ~ok THEN SentimentError(slot, ops \cup {"upstream_failed"})
              ELSE IF slot.client THEN [slot EXCEPT !.pc = "set", !.ops = ops, !.data = data]
              ELSE Responded([slot EXCEPT !.data = data], 200, "", NoResult, ops)]
        /\ UNCHANGED <<ingestVars, store, cacheUp, redis_client, mongo_client, cache,
                       histVars>>

\* Lines 142-145: the payload is cached for SENTIMENT_TTL seconds and returned.
SentimentSet(r) ==
    LET slot == req[r]
        ops == slot.ops \cup {"cache_set"}
    IN  /\ slot.pc = "set"
        /\ IF ~cacheUp
           THEN /\ req' = [req EXCEPT ![r] = SentimentError(slot, ops)]
                /\ UNCHANGED cache
           ELSE /\ cache' = CacheSet(cache, SentimentKey(slot.symbol),
                                     SentimentDumps(slot.data), SENTIMENT_TTL)
                /\ req' = [req EXCEPT ![r] = Responded(slot, 200, "", NoResult, ops)]
        /\ UNCHANGED <<ingestVars, store, cacheUp, redis_client, mongo_client, histVars>>

(***************************************************************************)
(* The environment of the API process                                      *)
(***************************************************************************)
\* Redis becomes unreachable; what it holds is kept.
CacheGoesDown ==
    /\ cacheUp
    /\ cacheUp' = FALSE
    /\ last' = [s \in ReqSymbols |-> NoLast]
    /\ lastSet' = [s \in ReqSymbols |-> NoLast]
    /\ UNCHANGED <<ingestVars, store, redis_client, mongo_client, cache, req>>

CacheComesUp ==
    /\ ~cacheUp
    /\ cacheUp' = TRUE
    /\ UNCHANGED <<ingestVars, store, redis_client, mongo_client, cache, req, histVars>>

\* TickSeconds pass.
Tick ==
    /\ cache' = Expire(cache, TickSeconds)
    /\ last' = Aged(last, TickSeconds)
    /\ lastSet' = Aged(lastSet, TickSeconds)
    /\ <<cache', last', lastSet'>> # <<cache, last, lastSet>>
    /\ UNCHANGED <<ingestVars, store, cacheUp, redis_client, mongo_client, req>>

\* SENTIMENT_TTL seconds pass.
HourPasses ==
    /\ cache' = Expire(cache, SENTIMENT_TTL)
    /\ last' = Aged(last, SENTIMENT_TTL)
    /\ lastSet' = Aged(lastSet, SENTIMENT_TTL)
    /\ <<cache', last', lastSet'>> # <<cache, last, lastSet>>
    /\ UNCHANGED <<ingestVars, store, cacheUp, redis_client, mongo_client, req>>

FailPoints == {-1} \cup (0..MaxPartial)

IngestNext ==
    \/ MainGuard
    \/ get_db_connection
    \/ /\ ipc = "loop"
       /\ \E resp \in ResponsesFor(SYMBOLS[idx]), fail_at \in FailPoints :
             run_daily_ingestion(resp, fail_at)
    \/ PacingSleep
    \/ LogTotals
    \/ SleepUntilNextRun
    \/ Relaunch

(***************************************************************************)
(* The ingestion cycle                                                     *)
(***************************************************************************)
Resting == ipc \in {"log", "sleep24", "exited"}

\* The records the payload fetched at position j asks to store.
PayloadStored(j) ==
    LET symbol == SYMBOLS[j]
        series == outcomes[j].series
    IN  /\ symbol \in upserted
        /\ \A i \in 1..Len(series) :
              /\ <<symbol, series[i][1]>> \in DOMAIN store[Upper(symbol)]
              /\ store[Upper(symbol)][<<symbol, series[i][1]>>]
                    = Record(symbol, series[i][1], series[i][2])

\* C1: when the fetch for the symbol at position k is rate limited, every
\* earlier symbol whose payload carried bars has them upserted, nothing is
\* fetched or upserted for the symbol at k or any later one, the cycle goes
\* to its end, and the request count is, and is logged as, exactly k.
RateLimitAbort ==
    \A k \in 1..Len(outcomes) :
        Classify(outcomes[k]) = "RateLimited" =>
            /\ Len(outcomes) = k
            /\ count = k
            /\ Resting
            /\ \A j \in 1..(k - 1) :
                  (outcomes[j].has_series /\ Len(outcomes[j].series) > 0)
                      => PayloadStored(j)
            /\ \A j \in k..Len(SYMBOLS) : SYMBOLS[j] \notin upserted
            /\ \A i \in 1..Len(logged) : logged[i] = k

\* C1 witness: the second symbol is rate limited after the first was stored,
\* and the cycle has logged its total.
RateLimitAbortWitness ==
    /\ Len(outcomes) = 2
    /\ Classify(outcomes[2]) = "RateLimited"
    /\ PayloadStored(1)
    /\ logged = <<2>>
    /\ ipc = "exited"

\* C2: a PremiumRestricted or TransportError fetch skips its symbol and the
\* cycle goes on to the next symbol; a cycle that ended before the end of
\* the list ended on a RateLimited fetch.
SkipWithoutAbort ==
    Resting =>
        /\ \A k \in 1..Len(outcomes) :
              (Classify(outcomes[k]) \in {"PremiumRestricted", "TransportError"}
                  /\ k < Len(SYMBOLS))
                  => Len(outcomes) > k
        /\ (Len(outcomes) > 0 /\ Len(outcomes) < Len(SYMBOLS))
              => Classify(outcomes[Len(outcomes)]) = "RateLimited"

\* The processing of the payload fetched at position k failed.
ProcessingFailed(k) ==
    /\ ShouldProcess(fetch_alpha_vantage_data(outcomes[k]))
    /\ Len(outcomes[k].series) > 0
    /\ SYMBOLS[k] \notin upserted

\* C3: a payload whose processing fails (a malformed entry, a failed bulk
\* write) does not end the cycle: the process does not die and the next
\* symbol is fetched.
FailureIsolation ==
    \A k \in 1..Len(outcomes) :
        (ProcessingFailed(k) /\ k < Len(SYMBOLS)) =>
            /\ ipc # "crashed"
            /\ Resting => Len(outcomes) > k

\* The step issues one call of fetch_alpha_vantage_data.
FetchStep == ipc = "loop" /\ Len(outcomes') = Len(outcomes) + 1

\* C12: the counter equals the number of fetch calls issued so far in the
\* cycle and never exceeds the length of the symbol list; every fetch call
\* adds exactly one to it whatever its outcome, and nothing else changes it
\* but a new process starting from zero.
RequestCounting ==
    /\ [](count = Len(outcomes) /\ count <= Len(SYMBOLS))
    /\ [][/\ FetchStep => count' = count + 1
          /\ count' # count => (FetchStep \/ (count' = 0 /\ outcomes' = <<>>))]_vars

\* C12 witness: a cycle whose fifth fetch failed in transport has counted
\* and logged five requests.
RequestCountingWitness ==
    /\ Len(outcomes) = Len(SYMBOLS)
    /\ Classify(outcomes[Len(SYMBOLS)]) = "TransportError"
    /\ \A j \in 1..(Len(SYMBOLS) - 1) : Classify(outcomes[j]) = "Payload"
    /\ count = Len(SYMBOLS)
    /\ logged = <<Len(SYMBOLS)>>

\* C13: within one run of the cycle the k-th fetch is for the k-th symbol of
\* the list, so the symbols are fetched in list order and each at most once;
\* exactly one complete sleep of 15 seconds lies between two consecutive
\* fetches, and a fetch is never followed by another without that sleep.
Pacing ==
    /\ [](ipc = "loop" =>
            /\ idx = Len(outcomes) + 1
            /\ idx <= Len(SYMBOLS)
            /\ paces = PACING_SECONDS * Len(outcomes))
    /\ [][FetchStep =>
             /\ outcomes'[idx] \in ResponsesFor(SYMBOLS[idx])
             /\ SubSeq(outcomes', 1, idx - 1) = outcomes
             /\ ipc' # "loop"
             /\ paces' = paces]_vars
    /\ [][(ipc # "loop" /\ ipc' = "loop" /\ outcomes' # <<>>) =>
             /\ ipc = "pace"
             /\ paces' = paces + PACING_SECONDS
             /\ idx' = idx + 1]_vars

\* C13 witness: the fifth fetch of a cycle has been issued, after four
\* pacing sleeps, 60 seconds in all.
PacingWitness ==
    /\ Len(outcomes) = Len(SYMBOLS)
    /\ idx = Len(SYMBOLS)
    /\ paces = PACING_SECONDS * (Len(SYMBOLS) - 1)
    /\ ipc = "log"

\* C14: once the symbol loop of a run has started, that run eventually logs
\* its total, equal to the request counter, and is then in the 24-hour
\* sleep, whatever the fetches and the processing did.
CycleCompletion ==
    \A n \in 1..MaxRuns :
        (ipc = "loop" /\ runs = n)
            ~> (ipc = "sleep24" /\ runs = n /\ logged = <<count>>)

\* C15: the process is a loop: when its 24-hour sleep is over the same
\* process is at the start of another cycle over the symbol list, and at the
\* start of every cycle the request counter is zero.
RepeatingCycles ==
    /\ []((ipc = "loop" /\ idx = 1) => (count = 0 /\ outcomes = <<>>))
    /\ [][(ipc = "sleep24" /\ ipc' # "sleep24") =>
             /\ ipc' = "loop"
             /\ idx' = 1
             /\ count' = 0
             /\ runs' = runs]_vars

\* C20: with the API key unset or equal to the placeholder, main() returns
\* at once: the process is only ever at its entry or gone, no database
\* connection, no fetch, the counter at zero, no pacing sleep, no total
\* logged, no 24-hour sleep, and the store as it was.
ApiKeyGuard ==
    /\ [](API_KEY \in {"unset", "YOUR_API_KEY"} =>
            /\ ipc \in {"main", "exited"}
            /\ ~db
            /\ count = 0
            /\ outcomes = <<>>
            /\ upserted = {}
            /\ paces = 0
            /\ logged = <<>>)
    /\ [][(API_KEY \in {"unset", "YOUR_API_KEY"}) =>
             (store' = store /\ (ipc = "main" => ipc' = "exited"))]_vars

\* C20 witness: the process was started twice with the placeholder key and
\* has returned both times.
ApiKeyGuardWitness ==
    /\ API_KEY = "YOUR_API_KEY"
    /\ runs = MaxRuns
    /\ ipc = "exited"
    /\ count = 0
    /\ ~db

\* The records of a store.
AllRecords == UNION {{store[c][id] : id \in DOMAIN store[c]} : c \in DOMAIN store}

OneBarPerKey ==
    \A a, b \in AllRecords :
        (a.symbol = b.symbol /\ a.timestamp = b.timestamp) => a = b

\* The step is a completed bulk upsert of the payload `resp` for `symbol`.
UpsertStep(symbol, resp) ==
    /\ ipc = "loop"
    /\ symbol = SYMBOLS[idx]
    /\ outcomes' = Append(outcomes, resp)
    /\ symbol \notin upserted
    /\ symbol \in upserted'

UpsertEffect(symbol, resp) ==
    LET coll == Upper(symbol)
        ops == Operations(symbol, resp.series)
        ids == {ops[i]._id : i \in 1..Len(ops)}
    IN  /\ DOMAIN store'[coll] = DOMAIN store[coll] \cup ids
        /\ \A i \in 1..Len(ops) : store'[coll][ops[i]._id] = ops[i]
        /\ \A id \in DOMAIN store[coll] \ ids : store'[coll][id] = store[coll][id]
        /\ \A c \in DOMAIN store \ {coll} : store'[c] = store[c]
        /\ (\A i \in 1..Len(ops) :
               ops[i]._id \in DOMAIN store[coll] /\ store[coll][ops[i]._id] = ops[i])
              => store' = store

\* C7: the store never holds two bars for one (symbol, date); a completed
\* upsert leaves, for each key of the payload, one record with the values
\* just written, leaves the other records alone, and changes nothing when
\* the data is already there.
IdempotentUpsert ==
    /\ []OneBarPerKey
    /\ [][\A symbol \in SymbolSet :
             \A resp \in ResponsesFor(symbol) :
                UpsertStep(symbol, resp) => UpsertEffect(symbol, resp)]_vars

\* C7 witness: the bar of 2024-01-10, stored with the ten bars, has been
\* written again with other values, and the store holds eleven bars.
IdempotentUpsertWitness ==
    LET symbol == SYMBOLS[Len(SYMBOLS)]
        id == <<symbol, DateStrs[10]>>
    IN  /\ symbol \in upserted
        /\ Cardinality(DOMAIN store[symbol]) = 11
        /\ store[symbol][id].volume = 200
        /\ store[symbol][id].close = 1004

(***************************************************************************)
(* The prediction endpoint                                                 *)
(***************************************************************************)
Tracked(symbol) == Upper(symbol) \in SymbolSet

\* The request of slot r gets its response in this step.
Completes(r) == req[r].pc # "done" /\ req'[r].pc = "done"

\* C4: no request for a tracked symbol is answered with the internal error:
\* a cache that cannot be reached counts as a miss, and a request that got
\* no cache client reads the store.
CacheDegradesToMiss ==
    \A r \in Slots :
        (req[r].pc = "done" /\ Tracked(req[r].symbol)) =>
            /\ req[r].status # 500
            /\ (~req[r].client) => "find" \in req[r].ops

\* The response of slot r repeats `earlier` and took no store read.
ServedFromCache(r, earlier) ==
    /\ req[r].status = 200
    /\ req[r].result = earlier.body
    /\ "find" \notin req[r].ops

\* C5 as stated: a call that follows, within 60 seconds and with no store
\* mutation (and with Redis reachable all along), a call for the same symbol
\* that returned a result, returns the same result without a store read.
CacheShortCircuitAnyResult ==
    \A r \in Slots :
        (req[r].pc = "done" /\ req[r].prev.valid) => ServedFromCache(r, req[r].prev)

\* C5 amended: a call that follows, within 60 seconds and with no store
\* mutation and Redis reachable all along, a call for the same symbol that
\* computed a numeric prediction and cached it, returns that result without
\* a store read.
CacheShortCircuit ==
    \A r \in Slots :
        (req[r].pc = "done" /\ req[r].prevSet.valid)
            => ServedFromCache(r, req[r].prevSet)

\* C5 witness: a response served from the cache half a minute after the
\* result was computed and cached.
CacheShortCircuitWitness ==
    \E r \in Slots :
        /\ req[r].pc = "done"
        /\ req[r].prevSet.valid
        /\ req[r].prevSet.age > 0
        /\ "cache_get" \in req[r].ops
        /\ req[r].result.prediction_is_number

\* C6: a request for a symbol that is not tracked is answered "Symbol not
\* tracked" at once, having called neither get_redis_client nor get_mongo_db
\* nor Redis nor MongoDB: the step leaves both handles, the cache and the
\* store as they were.
UnknownSymbolRejected ==
    /\ [](\A r \in Slots :
            (req[r].pc # "idle" /\ ~Tracked(req[r].symbol)) =>
                /\ req[r].pc = "done"
                /\ req[r].status = 404
                /\ req[r].error = "Symbol not tracked"
                /\ req[r].ops = {})
    /\ [][\A r \in Slots :
            (req'[r] # req[r] /\ req'[r].pc # "idle" /\ ~Tracked(req'[r].symbol))
                => UNCHANGED <<redis_client, mongo_client, cache, store>>]_vars

\* C6 witness: "ZZZZ" was rejected by an API process that still holds no
\* handle to either backend.
UnknownSymbolRejectedWitness ==
    \E r \in Slots :
        /\ req[r].pc = "done"
        /\ req[r].symbol = "ZZZZ"
        /\ req[r].status = 404
        /\ redis_client = "None"
        /\ mongo_client = "None"

\* The numeric results in sight: held by a request, or in the cache.
NumericResults ==
    {req[r].result : r \in {x \in Slots : req[x].result.prediction_is_number}}
        \cup {Loads(cache[k].value) : k \in {x \in CacheKeys : cache[x].present}}

\* C8 as stated: a numeric result recommends Buy exactly when its reported
\* (rounded) prediction is greater than its reported latest close, Sell
\* otherwise.
RecommendationOnReported ==
    \A res \in NumericResults :
        res.recommendation = IF res.prediction > res.latest_close THEN "Buy" ELSE "Sell"

\* C8 amended: a numeric result recommends Buy exactly when the computed
\* (unrounded) prediction is greater than the unrounded latest close, and
\* Sell otherwise, equality yielding Sell; it reports both values rounded to
\* 2 decimals, so that Buy comes with a reported prediction no smaller than
\* the reported close and Sell with one no greater; Hold never comes with a
\* number.
RecommendationOnComputed ==
    /\ \A r \in Slots :
          (req[r].result.prediction_is_number /\ ~req[r].tp.none) =>
              /\ req[r].result.recommendation =
                    IF req[r].tp.num > req[r].tp.latest_close * req[r].tp.den
                    THEN "Buy" ELSE "Sell"
              /\ req[r].result.prediction = Round2(req[r].tp.num, req[r].tp.den)
              /\ req[r].result.latest_close = Round2(req[r].tp.latest_close, 1)
    /\ \A res \in NumericResults :
          /\ res.recommendation \in {"Buy", "Sell"}
          /\ res.recommendation = "Buy" => res.prediction >= res.latest_close
          /\ res.recommendation = "Sell" => res.prediction <= res.latest_close

\* C8 witness: a computed Buy whose reported prediction equals its reported
\* latest close.
RecommendationOnComputedWitness ==
    \E r \in Slots :
        /\ req[r].pc = "done"
        /\ ~req[r].tp.none
        /\ req[r].result.prediction_is_number
        /\ req[r].result.recommendation = "Buy"
        /\ req[r].result.prediction = req[r].result.latest_close

\* The close of the chronologically latest record of a collection.
LatestStoredClose(coll) ==
    LET id == CHOOSE a \in DOMAIN coll :
                 \A b \in DOMAIN coll : coll[b].timestamp <= coll[a].timestamp
    IN  coll[id].close

\* C9: a request for a tracked symbol that gets its response while the store
\* holds between 1 and 9 bars for it gets Hold, no number, and the unrounded
\* close of the latest stored bar.
InsufficientDataHold ==
    [][\A r \in Slots :
          LET coll == store[Upper(req'[r].symbol)]
          IN  (Completes(r) /\ Tracked(req'[r].symbol)
                  /\ Cardinality(DOMAIN coll) \in 1..(MIN_POINTS - 1))
                  => /\ req'[r].status = 200
                     /\ req'[r].result.recommendation = "Hold"
                     /\ ~req'[r].result.prediction_is_number
                     /\ req'[r].result.latest_close = LatestStoredClose(coll)]_vars

\* C10: a request for a tracked symbol that gets its response while the
\* store holds no bar for it gets "No data available", and the cache is not
\* written.
EmptyStoreNoData ==
    [][\A r \in Slots :
          (Completes(r) /\ Tracked(req'[r].symbol)
              /\ DOMAIN store[Upper(req'[r].symbol)] = {})
              => /\ req'[r].status = 404
                 /\ req'[r].error = "No data available for this symbol yet"
                 /\ cache' = cache]_vars

(***************************************************************************)
(* The trend estimate                                                      *)
(***************************************************************************)
\* The closes a collection holds, oldest first.
ChronologicalCloses(coll) ==
    LET newest_first == SortDescending(coll, DOMAIN coll)
    IN  [i \in 1..Len(newest_first) |-> newest_first[Len(newest_first) + 1 - i].close]

\* The intercepts and slopes of the lines of closes, in thousandths; the
\* slope of one currency unit a day gives the closes 1, 2, .., 10.
TrendIntercepts == {UnitsPerCurrency * k : k \in 1..MaxIntercept}
TrendSlopes == (-MaxSlope..MaxSlope) \cup {UnitsPerCurrency}

\* closes[i] = a + b * (i - 1) for the indices 0..n-1 of the regression.
OnLine(closes, a, b) == \A i \in 1..Len(closes) : closes[i] = a + b * (i - 1)

\* The same closes as bare data points, numbered in order.
BareData(closes) == [i \in 1..Len(closes) |-> [timestamp |-> i, close |-> closes[i]]]

\* The request of slot r holds an estimate computed from the store.
Estimated(r) == req[r].pc \in {"cache_set", "done"} /\ "find" \in req[r].ops

\* C11: an estimate over n >= 10 stored closes that lie on the line
\* a + b * i (i = 0..n-1) is exactly a + b * n, the closes 1..10 giving 11;
\* and an estimate is a function of the sequence of closes alone: the same
\* closes under other dates, volumes or request spellings give the same
\* estimate.
DeterministicTrend ==
    \A r \in Slots :
        Estimated(r) =>
            LET closes == ChronologicalCloses(store[Upper(req[r].symbol)])
                n == Len(closes)
            IN  /\ n >= MIN_POINTS =>
                      /\ ~req[r].tp.none
                      /\ \A a \in TrendIntercepts, b \in TrendSlopes :
                            OnLine(closes, a, b)
                                => req[r].tp.num = (a + b * n) * req[r].tp.den
                /\ (n > 0) => req[r].tp = train_and_predict(BareData(closes))

\* C11 witness: the closes 1, 2, .., 10 were read from the store and the
\* estimate is 11.
DeterministicTrendWitness ==
    \E r \in Slots :
        /\ Estimated(r)
        /\ req[r].pc = "done"
        /\ ChronologicalCloses(store[Upper(req[r].symbol)])
              = [i \in 1..MIN_POINTS |-> i * UnitsPerCurrency]
        /\ req[r].tp.num = (MIN_POINTS + 1) * UnitsPerCurrency * req[r].tp.den
        /\ req[r].result.prediction = (MIN_POINTS + 1) * UnitsPerCurrency

\* The spellings of the symbol of slot r whose cache entry is present.
CachedSpellings(r) ==
    {s \in ReqSymbols : Upper(s) = Upper(req[r].symbol) /\ cache[PredictionKey(s)].present}

\* C18: a request whose symbol, in any letter case, has a result in the
\* cache is served that result by its cache lookup, without a store read.
CaseInsensitiveSharing ==
    [][\A r \in Slots :
          (req[r].pc = "cache_get" /\ req'[r] # req[r] /\ cacheUp
              /\ CachedSpellings(r) # {})
              => /\ req'[r].pc = "done"
                 /\ req'[r].status = 200
                 /\ "find" \notin req'[r].ops
                 /\ \E s \in CachedSpellings(r) :
                       req'[r].result = Loads(cache[PredictionKey(s)].value)]_vars

(***************************************************************************)
(* The sentiment proxy                                                     *)
(***************************************************************************)
\* C19: with Redis reachable and the news API answering, a sentiment
\* request is answered 200 with the payload the cache held or the payload
\* just fetched, and never with the internal error, whenever the entry
\* expires.
SentimentReadThrough ==
    [][\A r \in SentimentSlots :
          (Completes(r) /\ cacheUp /\ req'[r].client
              /\ "upstream_failed" \notin req'[r].ops)
              => /\ req'[r].status = 200
                 /\ req'[r].data \in SentimentFeeds
                 /\ "upstream" \notin req'[r].ops =>
                       /\ cache[SentimentKey(req'[r].symbol)].present
                       /\ req'[r].data
                             = SentimentLoads(cache[SentimentKey(req'[r].symbol)].value)]_vars

(***************************************************************************)
(* Concurrent requests                                                     *)
(***************************************************************************)
\* The request of slot r missed the cache, read the store and was answered
\* with a result.
MissedAndAnswered(r) ==
    /\ req[r].pc = "done"
    /\ req[r].status = 200
    /\ {"cache_get", "find"} \subseteq req[r].ops

\* Slots a and b served the same symbol from the same store content.
SameSnapshot(a, b) ==
    /\ req[a].symbol = req[b].symbol
    /\ req[a].recent_data = req[b].recent_data

\* The entry the cache holds for a result just written.
EntryOf(result) == [present |-> TRUE, value |-> Dumps(result), ttl |-> PREDICTION_TTL]

\* C16 as stated: requests for the same symbol that all missed the cache
\* and read the same store content all return the same result, and when
\* the last of them is answered the cache entry of the symbol is that
\* result.
ConcurrentMissesAnyResult ==
    /\ [](\A a, b \in Slots :
            (MissedAndAnswered(a) /\ MissedAndAnswered(b) /\ SameSnapshot(a, b))
                => req[a].result = req[b].result)
    /\ [][\A r \in Slots :
            (Completes(r) /\ MissedAndAnswered(r)')
                => cache'[PredictionKey(req'[r].symbol)] = EntryOf(req'[r].result)]_vars

\* C16 amended: requests for the same symbol that all missed the cache,
\* read the same store content and were answered with a result all return
\* the same result, each having read the store and computed for itself;
\* when one of them is answered with a numeric prediction the cache entry of
\* the symbol is that result, with a fresh time to live; a Hold result
\* leaves the cache as it was.
ConcurrentMisses ==
    /\ [](\A a, b \in Slots :
            (MissedAndAnswered(a) /\ MissedAndAnswered(b) /\ SameSnapshot(a, b))
                => /\ req[a].result = req[b].result
                   /\ req[a].tp = req[b].tp
                   /\ req[a].tp = train_and_predict(req[a].recent_data))
    /\ [][\A r \in Slots :
            (Completes(r) /\ MissedAndAnswered(r)')
                => IF req'[r].result.prediction_is_number
                   THEN cache'[PredictionKey(req'[r].symbol)] = EntryOf(req'[r].result)
                   ELSE cache' = cache]_vars

\* C16 witness: two requests for the same symbol were in flight together,
\* both past their cache miss before either wrote; both have been answered
\* with the same numeric result and the cache holds it.
ConcurrentMissesWitness ==
    \E a, b \in Slots :
        /\ a # b
        /\ MissedAndAnswered(a) /\ MissedAndAnswered(b) /\ SameSnapshot(a, b)
        /\ req[a].overlap /\ req[b].overlap
        /\ req[a].result.prediction_is_number
        /\ req[a].result = req[b].result
        /\ cache[PredictionKey(req[a].symbol)] = EntryOf(req[a].result)

\* Requests are served one at a time.
SeqSlots == {"r1"}

ApiNext ==
    \/ \E r \in SeqSlots, symbol \in ReqSymbols : PredictBegin(r, symbol)
    \/ \E r \in SeqSlots : PredictCacheGet(r)
    \/ \E r \in SeqSlots : PredictFind(r)
    \/ \E r \in SeqSlots : PredictCacheSet(r)
    \/ CacheGoesDown
    \/ CacheComesUp
    \/ Tick

(***************************************************************************)
(* The store and its single writer                                         *)
(***************************************************************************)
\* The step serves a request: some slot changes.
QueryStep == req' # req

\* The step is the ingestion process running run_daily_ingestion.
IngestionStep == ipc = "loop" /\ outcomes' # outcomes

\* C17: a step of predict, chart_data or sentiment leaves the store as it
\* is; the store changes only in a step of the ingestion process, and then
\* every (symbol, date) key it held is still there.
SingleWriter ==
    [][/\ QueryStep => store' = store
       /\ store' # store =>
             /\ IngestionStep
             /\ ~QueryStep
             /\ \A c \in SymbolSet : DOMAIN store[c] \subseteq DOMAIN store'[c]]_vars

\* C17 witness: with bars already stored, a cycle has written the store
\* again beside answered predict, chart_data and sentiment requests, and the
\* eleven keys are there.
SingleWriterWitness ==
    LET symbol == SYMBOLS[Len(SYMBOLS)]
    IN  /\ symbol \in upserted
        /\ Cardinality(DOMAIN store[symbol]) = Len(DateStrs)
        /\ \A r \in SeqSlots \cup ChartSlots \cup SentimentSlots :
              req[r].pc = "done" /\ req[r].status = 200
        /\ \E c \in ChartSlots : Len(req[c].data) = MIN_POINTS

\* The ingestion process alone.
SpecIngest == Init /\ [][IngestNext]_vars

\* The ingestion process keeps running: a step it can take is taken.
SpecIngestLive == SpecIngest /\ WF_vars(IngestNext)

\* The stores an earlier launch of the ingestion process can have left when
\* it ingested `resp` for the last symbol and nothing for the others.
StoreAfter(resp) ==
    LET symbol == SYMBOLS[Len(SYMBOLS)]
        ops == Operations(symbol, resp.series)
    IN  [c \in SymbolSet |->
            IF c = Upper(symbol) THEN BulkWrite(EmptyColl, ops, Len(ops)) ELSE EmptyColl]

\* The API process starts while the last launch of the ingestion process has
\* reached the last symbol, the earlier symbols having had nothing to store.
QueryInit ==
    /\ API_KEY = "valid"
    /\ ipc = "loop"
    /\ idx = Len(SYMBOLS)
    /\ count = Len(SYMBOLS) - 1
    /\ db = TRUE
    /\ store \in {StoreAfter(resp) : resp \in {RespNoBars, RespShort, RespTen}}
    /\ runs = MaxRuns
    /\ outcomes = [i \in 1..(Len(SYMBOLS) - 1) |-> RespEmptyJson]
    /\ upserted = {}
    /\ paces = PACING_SECONDS * (Len(SYMBOLS) - 1)
    /\ logged = <<>>
    /\ cacheUp \in BOOLEAN
    /\ redis_client = "None"
    /\ mongo_client = "None"
    /\ cache = [k \in AllKeys |-> NoEntry]
    /\ req = [r \in AllSlots |-> IdleSlot]
    /\ last = [s \in ReqSymbols |-> NoLast]
    /\ lastSet = [s \in ReqSymbols |-> NoLast]

IngestTail ==
    \/ /\ ipc = "loop"
       /\ \E resp \in ResponsesFor(SYMBOLS[idx]), fail_at \in FailPoints :
             run_daily_ingestion(resp, fail_at)
    \/ PacingSleep
    \/ LogTotals
    \/ SleepUntilNextRun

QueryNext == ApiNext \/ IngestTail

\* The API process serving requests one at a time beside the ingestion process.
SpecQuery == QueryInit /\ [][QueryNext]_vars

\* A collection of n daily bars from the day `first` on whose closes lie on
\* the line a + b * i.
LineColl(symbol, a, b, n, first) ==
    [id \in {<<symbol, DateStrs[first + i]>> : i \in 0..(n - 1)} |->
        LET close == a + b * (Strptime(id[2]) - first)
        IN  [_id |-> id, symbol |-> symbol, timestamp |-> Strptime(id[2]),
             open |-> close, high |-> close, low |-> close, close |-> close,
             volume |-> Int_("100")]]

\* The lengths and first days of the stored series: 10 or 11 bars within
\* the days of DateStrs.
LineShapes ==
    {sh \in (MIN_POINTS..Len(DateStrs)) \X (1..Len(DateStrs)) :
        sh[1] + sh[2] - 1 <= Len(DateStrs)}

\* The API process starts on a store that earlier ingestion has filled, for
\* the last symbol, with closes on a line; no ingestion process is running.
TrendInit ==
    /\ API_KEY = "unset"
    /\ ipc = "exited"
    /\ idx = 1
    /\ count = 0
    /\ db = FALSE
    /\ \E a \in TrendIntercepts, b \in TrendSlopes, sh \in LineShapes :
          store = [c \in SymbolSet |->
                      IF c = SYMBOLS[Len(SYMBOLS)]
                      THEN LineColl(c, a, b, sh[1], sh[2]) ELSE EmptyColl]
    /\ runs = MaxRuns
    /\ outcomes = <<>>
    /\ upserted = {}
    /\ paces = 0
    /\ logged = <<>>
    /\ cacheUp \in BOOLEAN
    /\ redis_client = "None"
    /\ mongo_client = "None"
    /\ cache = [k \in AllKeys |-> NoEntry]
    /\ req = [r \in AllSlots |-> IdleSlot]
    /\ last = [s \in ReqSymbols |-> NoLast]
    /\ lastSet = [s \in ReqSymbols |-> NoLast]

TrendNext ==
    \/ \E r \in SeqSlots, symbol \in ReqSymbols : PredictBegin(r, symbol)
    \/ \E r \in SeqSlots : PredictCacheGet(r)
    \/ \E r \in SeqSlots : PredictFind(r)
    \/ \E r \in SeqSlots : PredictCacheSet(r)
    \/ Tick

\* The prediction endpoint over stores whose closes lie on a line.
SpecTrend == TrendInit /\ [][TrendNext]_vars

\* The API process serves several requests for the last symbol at a time,
\* Redis comes and goes, and the ingestion process is at the last symbol of
\* its list.
ConcurrentInit ==
    /\ QueryInit
    /\ store \in {StoreAfter(resp) : resp \in {RespShort, RespTen}}
    /\ cacheUp

ConcurrentNext ==
    \/ \E r \in Slots : PredictBegin(r, SYMBOLS[Len(SYMBOLS)])
    \/ \E r \in Slots : PredictCacheGet(r)
    \/ \E r \in Slots : PredictFind(r)
    \/ \E r \in Slots : PredictCacheSet(r)
    \/ CacheGoesDown
    \/ CacheComesUp
    \/ Tick
    \/ /\ ipc = "loop"
       /\ \E resp \in {RespShort2, RespTen} : run_daily_ingestion(resp, -1)

SpecConcurrent == ConcurrentInit /\ [][ConcurrentNext]_vars

\* The three query operations, one request of each at a time, beside the
\* ingestion process at the last symbol of its list.
StoreInit ==
    /\ QueryInit
    /\ store = StoreAfter(RespTen)
    /\ cacheUp

StoreNext ==
    \/ \E r \in SeqSlots : PredictBegin(r, SYMBOLS[Len(SYMBOLS)])
    \/ \E r \in SeqSlots : PredictCacheGet(r)
    \/ \E r \in SeqSlots : PredictFind(r)
    \/ \E r \in SeqSlots : PredictCacheSet(r)
    \/ \E r \in ChartSlots, symbol \in {"amzn", "ZZZZ"} : ChartBegin(r, symbol)
    \/ \E r \in ChartSlots : ChartFind(r)
    \/ \E r \in SentimentSlots : SentimentBegin(r, SYMBOLS[Len(SYMBOLS)])
    \/ \E r \in SentimentSlots : SentimentExists(r)
    \/ \E r \in SentimentSlots : SentimentGet(r)
    \/ \E r \in SentimentSlots, data \in SentimentFeeds : SentimentFetch(r, TRUE, data)
    \/ \E r \in SentimentSlots : SentimentSet(r)
    \/ HourPasses
    \/ IngestTail

SpecStore == StoreInit /\ [][StoreNext]_vars

\* The sentiment endpoint alone: Redis up or down from the start, entries
\* expiring an hour after they were written.
SentimentInit ==
    /\ API_KEY = "unset"
    /\ ipc = "exited"
    /\ idx = 1
    /\ count = 0
    /\ db = FALSE
    /\ store = [c \in SymbolSet |-> EmptyColl]
    /\ runs = MaxRuns
    /\ outcomes = <<>>
    /\ upserted = {}
    /\ paces = 0
    /\ logged = <<>>
    /\ cacheUp \in BOOLEAN
    /\ redis_client = "None"
    /\ mongo_client = "None"
    /\ cache = [k \in AllKeys |-> NoEntry]
    /\ req = [r \in AllSlots |-> IdleSlot]
    /\ last = [s \in ReqSymbols |-> NoLast]
    /\ lastSet = [s \in ReqSymbols |-> NoLast]

SentimentNext ==
    \/ \E r \in SentimentSlots, symbol \in ReqSymbols : SentimentBegin(r, symbol)
    \/ \E r \in SentimentSlots : SentimentExists(r)
    \/ \E r \in SentimentSlots : SentimentGet(r)
    \/ \E r \in SentimentSlots, ok \in BOOLEAN, data \in SentimentFeeds :
          SentimentFetch(r, ok, data)
    \/ \E r \in SentimentSlots : SentimentSet(r)
    \/ HourPasses

SpecSentiment == SentimentInit /\ [][SentimentNext]_vars

\* The chart and sentiment endpoints.
SideNext ==
    \/ \E r \in ChartSlots, symbol \in ReqSymbols : ChartBegin(r, symbol)
    \/ \E r \in ChartSlots : ChartFind(r)
    \/ SentimentNext

Next == IngestNext \/ ApiNext \/ SideNext

Spec == Init /\ [][Next]_vars

====
